---------------------------- MODULE Spec2Model ----------------------------
(***************************************************************************)
(* PixelatedLyrics: the cue parser YouTubeExtractor.parseVTT, the          *)
(* timed-text alignment of YouTubeExtractor.downloadTranscript, the frame  *)
(* scheduling and frame pipeline of VideoGenerator.generateFrames, and the *)
(* job control of the server (/api/start, generateVideo).                  *)
(*                                                                         *)
(* Times are milliseconds.  A TranscriptItem is a record                   *)
(* [text, offset, duration] whose text is a sequence of strings, one per   *)
(* language.                                                               *)
(***************************************************************************)
EXTENDS Integers, Sequences, FiniteSets, TLC

VARIABLES
    \* YouTubeExtractor.downloadTranscript
    selectedLanguages,  \* the languages asked for, in selection order
    langIdx,            \* how many of them the fetch loop has gone through
    transcripts,        \* the tracks fetched so far: <<[lang, items], ...>>
    dtPc,               \* "idle" | "fetch" | "returned" | "repeated"
    dtResult,           \* the TranscriptItem[] that downloadTranscript returns
    dtEarlier,          \* what the call before returned, for the same tracks
    dtFailed,           \* the languages whose fetch failed
    tempSubs,           \* temp_subs: language -> the .vtt file of that language
    \* VideoGenerator.generateFrames
    transcript,         \* its transcript argument
    fps,                \* its fps argument
    files,              \* framesDir: path -> content of the file at that path
    gfPc,               \* "idle" | "loop" | "done" | "failed"
    totalFrames,
    totalDuration,
    frameToItem,        \* frame -> index in transcript of the item it shows
    frameNumber,        \* the loop variable (0-based)
    events,             \* onFrameGenerated calls of this run, in order
    renders,            \* renderFrame calls of this run: <<[frame, lines], ...>>
    writes,             \* writeFile calls of this run: the paths, in order
    gfError,            \* why this run rejected: "" | "TypeError" | "render" | "write"
    failedAt,           \* 1-based index of the frame whose render or write threw, else 0
    gfResult,           \* the value the returned promise resolves to
    run,                \* number of generateFrames invocations so far
    filesAtStart,       \* files as this run found them
    prev,               \* the previous run: [pc, events, files, failedAt]
    \* server.ts
    projects,           \* the projects map: videoId -> ProjectState
    cfgPc,              \* /api/configure: "idle" | "saving"
    dirs,               \* which of the project's directories exist
    runs,               \* the generateVideo calls so far, see StartedRun
    \* YouTubeExtractor.parseVTT
    vttContent,         \* its argument, a sequence of characters
    pvPc,               \* "idle" | "loop" | "returned"
    pvLines,            \* lines
    pvI,                \* the loop variable i (0-based)
    pvItems             \* items

dtVars == <<selectedLanguages, langIdx, transcripts, dtPc, dtResult, dtEarlier, dtFailed,
           tempSubs>>
gfVars == <<transcript, fps, files, gfPc, totalFrames, totalDuration, frameToItem,
            frameNumber, events, renders, writes, gfError, failedAt, gfResult, run,
            filesAtStart, prev>>
srvVars == <<projects, cfgPc, dirs, runs>>
pvVars == <<vttContent, pvPc, pvLines, pvI, pvItems>>
vars == <<dtVars, gfVars, srvVars, pvVars>>

----------------------------------------------------------------------------
(* Bounds *)

\* Cues fetched in one downloadTranscript call, over all languages.
MaxCues == 3
\* Entries of a Timeline handed to generateFrames.
MaxEntries == 2
\* generateFrames invocations against one frames directory.
MaxRuns == 2

Languages == <<"en", "fr", "de">>
\* Start and end stamps of the cues of a fetched track.
MergeStamps == 0..2

----------------------------------------------------------------------------
(* Tracks as parseVTT hands them over: text is a one-element list, offset   *)
(* the start stamp, duration end - start (not validated).                   *)

Item(text, start, end) ==
    [text |-> <<text>>, offset |-> start, duration |-> end - start]

\* The j-th cue of language lang carries a text of its own.
CueText(lang, j) == lang \o ToString(j)

TracksOf(lang, n, stamps) ==
    { [j \in 1..n |-> Item(CueText(lang, j), se[j][1], se[j][2])] :
        se \in [1..n -> stamps \X stamps] }

----------------------------------------------------------------------------
(* downloadTranscript, the merge (part_000 160-191)                         *)

\* (the interval taken half-open, [start, end))
MidpointInsideHalfOpen(baseItem, item) ==
    /\ 2 * baseItem.offset + baseItem.duration >= 2 * item.offset
    /\ 2 * baseItem.offset + baseItem.duration < 2 * (item.offset + item.duration)

\* baseMid >= item.offset && baseMid <= item.offset + item.duration, with
\* baseMid = baseItem.offset + baseItem.duration / 2 (a float: both sides doubled)
MidpointInside(baseItem, item) ==
    /\ 2 * baseItem.offset + baseItem.duration >= 2 * item.offset
    /\ 2 * baseItem.offset + baseItem.duration <= 2 * (item.offset + item.duration)

\* Array.prototype.find: the index of the first matching item, 0 for undefined
FindMatch(items, baseItem) ==
    LET hits == { k \in 1..Len(items) : MidpointInside(baseItem, items[k]) }
    IN  IF hits = {} THEN 0 ELSE CHOOSE k \in hits : \A h \in hits : k <= h

\* what is pushed to mergedItems[j].text for one language
MatchedText(items, baseItem) ==
    LET k == FindMatch(items, baseItem)
    IN  IF k # 0 /\ Len(items[k].text) > 0 THEN items[k].text[1] ELSE ""

\* (cues without a positive duration left out of the base)
BaseItemsValidOnly(items) ==
    LET kept == SelectSeq(items, LAMBDA c : c.duration > 0)
    IN  [j \in 1..Len(kept) |->
            [text |-> <<kept[j].text[1]>>,
             offset |-> kept[j].offset,
             duration |-> kept[j].duration]]

\* baseTranscript.items.map(...)
BaseItems(items) ==
    [j \in 1..Len(items) |->
        [text |-> <<items[j].text[1]>>,
         offset |-> items[j].offset,
         duration |-> items[j].duration]]

\* (a text pushed only where a cue matched)
AddLanguageMatchedOnly(mergedItems, items) ==
    [j \in 1..Len(mergedItems) |->
        IF MatchedText(items, mergedItems[j]) = "" THEN mergedItems[j]
        ELSE [mergedItems[j] EXCEPT !.text = Append(@, MatchedText(items, mergedItems[j]))]]

\* one pass of the outer loop: every merged item gets one more text
AddLanguage(mergedItems, items) ==
    [j \in 1..Len(mergedItems) |->
        [mergedItems[j] EXCEPT !.text = Append(@, MatchedText(items, mergedItems[j]))]]

RECURSIVE MergeFrom(_, _, _)
MergeFrom(mergedItems, ts, i) ==
    IF i > Len(ts) THEN mergedItems
    ELSE MergeFrom(AddLanguage(mergedItems, ts[i].items), ts, i + 1)

\* (no early return: an untimed placeholder entry when nothing was fetched or
\* the base track has no cue)
MergeTranscriptsPlaceholder(ts) ==
    IF Len(ts) = 0 \/ Len(ts[1].items) = 0 THEN <<[text |-> <<"">>, offset |-> 0, duration |-> 0]>>
    ELSE MergeFrom(BaseItems(ts[1].items), ts, 2)

\* lines 153-191
MergeTranscripts(ts) ==
    IF Len(ts) = 0 THEN <<>>
    ELSE MergeFrom(BaseItems(ts[1].items), ts, 2)

CuesFetched ==
    LET RECURSIVE Sum(_)
        Sum(i) == IF i = 0 THEN 0 ELSE Len(transcripts[i].items) + Sum(i - 1)
    IN  Sum(Len(transcripts))

\* A file of temp_subs: the track that parseVTT makes of it, and whether its
\* name is sub_<lang>.vtt (plain) or has the language code once more,
\* sub_<lang>.<lang>.vtt, as yt-dlp names what it writes.
SubFile(items, plain) == [items |-> items, plain |-> plain]

\* lines 128-131: sub_<lang>.vtt is unlinked when it is there
CleanedUp(dir, lang) ==
    [l \in { k \in DOMAIN dir : ~(k = lang /\ dir[k].plain) } |-> dir[l]]

\* one language fetched and parsed: yt-dlp writes the file, and
\* transcripts.push({lang, items})
FetchLanguage ==
    /\ dtPc = "fetch"
    /\ langIdx < Len(selectedLanguages)
    /\ \E n \in 0..(MaxCues - CuesFetched) :
         \E items \in TracksOf(selectedLanguages[langIdx + 1], n, MergeStamps) :
            /\ transcripts' = Append(transcripts,
                                     [lang |-> selectedLanguages[langIdx + 1], items |-> items])
            /\ tempSubs' = [l \in DOMAIN tempSubs \cup {selectedLanguages[langIdx + 1]} |->
                               IF l = selectedLanguages[langIdx + 1]
                               THEN SubFile(items, FALSE) ELSE tempSubs[l]]
    /\ langIdx' = langIdx + 1
    /\ UNCHANGED <<selectedLanguages, dtPc, dtResult, dtEarlier, dtFailed,
                   gfVars, srvVars, pvVars>>

\* yt-dlp ends without an error and without a file for the language; a file
\* whose name begins with sub_<lang> and ends with .vtt is there from before,
\* and readdir and find take it
FetchReadsLeftover ==
    /\ dtPc = "fetch"
    /\ langIdx < Len(selectedLanguages)
    /\ LET lang == selectedLanguages[langIdx + 1]
           dir == CleanedUp(tempSubs, lang)
       IN  /\ lang \in DOMAIN dir
           /\ transcripts' = Append(transcripts, [lang |-> lang, items |-> dir[lang].items])
           /\ dtFailed' = dtFailed \cup {lang}
           /\ tempSubs' = dir
    /\ langIdx' = langIdx + 1
    /\ UNCHANGED <<selectedLanguages, dtPc, dtResult, dtEarlier, gfVars, srvVars, pvVars>>

\* yt-dlp threw, or wrote no .vtt file: the language is passed over
FetchFails ==
    /\ dtPc = "fetch"
    /\ langIdx < Len(selectedLanguages)
    /\ langIdx' = langIdx + 1
    /\ dtFailed' = dtFailed \cup {selectedLanguages[langIdx + 1]}
    /\ tempSubs' = CleanedUp(tempSubs, selectedLanguages[langIdx + 1])
    /\ UNCHANGED <<selectedLanguages, transcripts, dtPc, dtResult, dtEarlier,
                   gfVars, srvVars, pvVars>>

\* after the loop: return [] or the merged items
MergeAndReturn ==
    /\ dtPc = "fetch"
    /\ langIdx = Len(selectedLanguages)
    /\ dtResult' = MergeTranscripts(transcripts)
    /\ dtPc' = "returned"
    /\ UNCHANGED <<selectedLanguages, langIdx, transcripts, dtEarlier, dtFailed, tempSubs,
                   gfVars, srvVars, pvVars>>

\* (the base items not copied: the call before has pushed its texts into the
\* items of the base track, and this call merges onto them)
MergeAgainShared ==
    /\ dtPc = "returned"
    /\ dtEarlier' = dtResult
    /\ dtResult' = IF Len(transcripts) = 0 THEN <<>> ELSE MergeFrom(dtResult, transcripts, 2)
    /\ dtPc' = "repeated"
    /\ UNCHANGED <<selectedLanguages, langIdx, transcripts, dtFailed, tempSubs,
                   gfVars, srvVars, pvVars>>

\* downloadTranscript called once more, the fetches giving the same tracks
MergeAgain ==
    /\ dtPc = "returned"
    /\ dtEarlier' = dtResult
    /\ dtResult' = MergeTranscripts(transcripts)
    /\ dtPc' = "repeated"
    /\ UNCHANGED <<selectedLanguages, langIdx, transcripts, dtFailed, tempSubs,
                   gfVars, srvVars, pvVars>>

----------------------------------------------------------------------------
(* generateFrames: the frame arithmetic (video-generator.ts 121-133)        *)
(*                                                                          *)
(* frameDuration = 1000 / fps and x / frameDuration are IEEE-754 doubles    *)
(* (JavaScript numbers).  1000 / fps is exact for the rates of ExactRates.  *)
(* For the others the double is off by a third of its last place:           *)
(* 1000/24 = 41.666666666666664 is below the quotient and                   *)
(* 1000/30 = 33.333333333333336 is above it.  Dividing by such a double     *)
(* changes floor or ceil only where x * fps / 1000 is a whole number n:     *)
(* n / (1 + d) is then rounded to n or to the double next to n, whichever   *)
(* is nearer, and the doubles next to n are 2^(e-52) away (2^(e-53) below   *)
(* a power of two), 2^e <= n < 2^(e+1).  FrameDurationError gives d as      *)
(* sign * num / den in units of 2^-53.                                      *)

ExactRates == {1, 2, 4, 5, 8, 10, 20, 25, 40, 50}
LowRates == {3, 6, 12, 24}
HighRates == {15, 30, 60}

FrameDurationError(rate) ==
    CASE rate \in ExactRates -> [sign |-> 0, num |-> 0, den |-> 1]
      [] rate \in LowRates -> [sign |-> -1, num |-> 64, den |-> 125]
      [] rate \in HighRates -> [sign |-> 1, num |-> 16, den |-> 25]

RECURSIVE Pow2Below(_)
Pow2Below(n) == IF n < 2 THEN 1 ELSE 2 * Pow2Below(n \div 2)

\* x / frameDuration for a time x >= 0: the floor and the ceiling of the double
FrameQuotient(x, rate) ==
    LET num == x * rate
        n == num \div 1000
        err == FrameDurationError(rate)
        p == Pow2Below(n)
    IN  IF num % 1000 # 0 THEN [floor |-> n, ceil |-> n + 1]
        ELSE IF n = 0 \/ err.sign = 0 THEN [floor |-> n, ceil |-> n]
        ELSE IF err.sign > 0
             THEN IF (IF n = p THEN 2 * n * err.num > p * err.den
                               ELSE n * err.num > p * err.den)
                  THEN [floor |-> n - 1, ceil |-> n]
                  ELSE [floor |-> n, ceil |-> n]
             ELSE IF n * err.num > p * err.den
                  THEN [floor |-> n, ceil |-> n + 1]
                  ELSE [floor |-> n, ceil |-> n]

\* Math.floor(item.offset / frameDuration)
StartFrame(item, rate) == FrameQuotient(item.offset, rate).floor

\* Math.ceil((item.offset + item.duration) / frameDuration)
EndFrame(item, rate) == FrameQuotient(item.offset + item.duration, rate).ceil

\* lastItem.offset + lastItem.duration
TotalDuration(ts) == ts[Len(ts)].offset + ts[Len(ts)].duration

\* Math.ceil(totalDuration / frameDuration)
TotalFrames(ts, rate) == FrameQuotient(TotalDuration(ts), rate).ceil

----------------------------------------------------------------------------
(* generateFrames: the frame -> item map (video-generator.ts 129-140)       *)

\* (a plain frameToItem.set: the item processed last holds the frame)
OverridesAlways(ts, map, f, i) == TRUE

\* (an item of the same offset takes the frame as well)
OverridesOrEqual(ts, map, f, i) ==
    f \notin DOMAIN map \/ ts[map[f]].offset <= ts[i].offset

\* whether item i takes frame f from the item that holds it
Overrides(ts, map, f, i) ==
    f \notin DOMAIN map \/ ts[map[f]].offset < ts[i].offset

\* (the loop run with frame <= endFrame)
ClaimFramesInclusive(ts, rate, map, i) ==
    LET range == StartFrame(ts[i], rate)..EndFrame(ts[i], rate)
        taken == { f \in range : Overrides(ts, map, f, i) }
    IN  [f \in DOMAIN map \cup taken |-> IF f \in taken THEN i ELSE map[f]]

\* the inner loop for item i
ClaimFrames(ts, rate, map, i) ==
    LET range == StartFrame(ts[i], rate)..(EndFrame(ts[i], rate) - 1)
        taken == { f \in range : Overrides(ts, map, f, i) }
    IN  [f \in DOMAIN map \cup taken |-> IF f \in taken THEN i ELSE map[f]]

RECURSIVE FrameMapFrom(_, _, _, _)
FrameMapFrom(ts, rate, map, i) ==
    IF i > Len(ts) THEN map
    ELSE FrameMapFrom(ts, rate, ClaimFrames(ts, rate, map, i), i + 1)

\* frameToItem after the loop over the transcript, items by their index
FrameToItem(ts, rate) == FrameMapFrom(ts, rate, <<>>, 1)

----------------------------------------------------------------------------
(* generateFrames: the frame loop (video-generator.ts 143-169)              *)

RECURSIVE Digits(_)
Digits(n) == IF n < 10 THEN <<n>> ELSE Append(Digits(n \div 10), n % 10)

RECURSIVE PadStart(_, _, _)
PadStart(s, len, fill) == IF Len(s) >= len THEN s ELSE PadStart(<<fill>> \o s, len, fill)

\* join(framesDir, `frame_${String(n).padStart(8, '0')}.png`): the digits
FramePath(n) == PadStart(Digits(n), 8, 0)

\* (the base language's text alone handed to the renderer)
TextLinesBaseOnly(ts, map, f) == IF f \in DOMAIN map THEN <<ts[map[f]].text[1]>> ELSE <<>>

\* item ? item.text : []
TextLines(ts, map, f) == IF f \in DOMAIN map THEN ts[map[f]].text ELSE <<>>

\* renderFrame: the image drawn; no line, or only blank lines, is the bare
\* background (a text of parseVTT is trimmed and not empty, so blank is "")
RenderFrame(textLines) ==
    IF \A k \in 1..Len(textLines) : textLines[k] = "" THEN <<>> ELSE textLines

Artifact(state, image) == [state |-> state, image |-> image]

\* (no resume check: nothing is taken to be there)
ExistsNever(fs, path) == FALSE

\* existsSync(framePath)
Exists(fs, path) == path \in DOMAIN fs

WriteTo(fs, path, content) ==
    [q \in DOMAIN fs \cup {path} |-> IF q = path THEN content ELSE fs[q]]

ProgressEvent(f, total) == <<f + 1, total, FramePath(f + 1)>>

\* (an empty transcript read as a video of no duration: lastItem?.offset ?? 0)
GenerateFramesStartLenient ==
    /\ gfPc \in {"idle", "done", "failed"}
    /\ run < MaxRuns
    /\ run' = run + 1
    /\ prev' = [pc |-> gfPc, events |-> events, files |-> files, failedAt |-> failedAt]
    /\ filesAtStart' = files
    /\ events' = <<>>
    /\ renders' = <<>>
    /\ writes' = <<>>
    /\ failedAt' = 0
    /\ frameNumber' = 0
    /\ gfResult' = [totalFrames |-> 0, duration |-> 0]
    /\ gfPc' = "loop"
    /\ gfError' = ""
    /\ totalDuration' = IF Len(transcript) = 0 THEN 0 ELSE TotalDuration(transcript)
    /\ totalFrames' = IF Len(transcript) = 0 THEN 0 ELSE TotalFrames(transcript, fps)
    /\ frameToItem' = FrameToItem(transcript, fps)
    /\ UNCHANGED <<transcript, fps, files, dtVars, srvVars, pvVars>>

\* the call, lines 121-140; an empty transcript makes lastItem undefined and
\* lastItem.offset throws a TypeError
GenerateFramesStart ==
    /\ gfPc \in {"idle", "done", "failed"}
    /\ run < MaxRuns
    /\ run' = run + 1
    /\ prev' = [pc |-> gfPc, events |-> events, files |-> files, failedAt |-> failedAt]
    /\ filesAtStart' = files
    /\ events' = <<>>
    /\ renders' = <<>>
    /\ writes' = <<>>
    /\ failedAt' = 0
    /\ frameNumber' = 0
    /\ gfResult' = [totalFrames |-> 0, duration |-> 0]
    /\ IF Len(transcript) = 0
       THEN /\ gfPc' = "failed"
            /\ gfError' = "TypeError"
            /\ totalDuration' = 0
            /\ totalFrames' = 0
            /\ frameToItem' = <<>>
       ELSE /\ gfPc' = "loop"
            /\ gfError' = ""
            /\ totalDuration' = TotalDuration(transcript)
            /\ totalFrames' = TotalFrames(transcript, fps)
            /\ frameToItem' = FrameToItem(transcript, fps)
    /\ UNCHANGED <<transcript, fps, files, dtVars, srvVars, pvVars>>

InLoop == gfPc = "loop" /\ frameNumber < totalFrames

\* (the skip without the notification)
SkipFrameSilent ==
    /\ InLoop
    /\ Exists(files, FramePath(frameNumber + 1))
    /\ frameNumber' = frameNumber + 1
    /\ UNCHANGED <<transcript, fps, files, gfPc, totalFrames, totalDuration, frameToItem,
                   events, renders, writes, gfError, failedAt, gfResult, run, filesAtStart,
                   prev, dtVars, srvVars, pvVars>>

\* lines 151-157: the artifact is there, notify and continue
SkipFrame ==
    /\ InLoop
    /\ Exists(files, FramePath(frameNumber + 1))
    /\ events' = Append(events, ProgressEvent(frameNumber, totalFrames))
    /\ frameNumber' = frameNumber + 1
    /\ UNCHANGED <<transcript, fps, files, gfPc, totalFrames, totalDuration, frameToItem,
                   renders, writes, gfError, failedAt, gfResult, run, filesAtStart, prev,
                   dtVars, srvVars, pvVars>>

\* (the write not awaited: the loop goes on while the file is not there yet)
RenderAndWriteDetached ==
    /\ InLoop
    /\ ~Exists(files, FramePath(frameNumber + 1))
    /\ LET lines == TextLines(transcript, frameToItem, frameNumber)
           path == FramePath(frameNumber + 1)
       IN  /\ renders' = Append(renders, [frame |-> frameNumber + 1, lines |-> lines])
           /\ writes' = Append(writes, path)
    /\ events' = Append(events, ProgressEvent(frameNumber, totalFrames))
    /\ frameNumber' = frameNumber + 1
    /\ UNCHANGED <<transcript, fps, files, gfPc, totalFrames, totalDuration, frameToItem,
                   gfError, failedAt, gfResult, run, filesAtStart, prev,
                   dtVars, srvVars, pvVars>>

\* (render and write whether or not the artifact is there)
RenderAndWriteAlways ==
    /\ InLoop
    /\ LET lines == TextLines(transcript, frameToItem, frameNumber)
           path == FramePath(frameNumber + 1)
       IN  /\ renders' = Append(renders, [frame |-> frameNumber + 1, lines |-> lines])
           /\ writes' = Append(writes, path)
           /\ files' = WriteTo(files, path, Artifact("complete", RenderFrame(lines)))
    /\ events' = Append(events, ProgressEvent(frameNumber, totalFrames))
    /\ frameNumber' = frameNumber + 1
    /\ UNCHANGED <<transcript, fps, gfPc, totalFrames, totalDuration, frameToItem,
                   gfError, failedAt, gfResult, run, filesAtStart, prev,
                   dtVars, srvVars, pvVars>>

\* lines 159-166: render, write, notify
RenderAndWrite ==
    /\ InLoop
    /\ ~Exists(files, FramePath(frameNumber + 1))
    /\ LET lines == TextLines(transcript, frameToItem, frameNumber)
           path == FramePath(frameNumber + 1)
       IN  /\ renders' = Append(renders, [frame |-> frameNumber + 1, lines |-> lines])
           /\ writes' = Append(writes, path)
           /\ files' = WriteTo(files, path, Artifact("complete", RenderFrame(lines)))
    /\ events' = Append(events, ProgressEvent(frameNumber, totalFrames))
    /\ frameNumber' = frameNumber + 1
    /\ UNCHANGED <<transcript, fps, gfPc, totalFrames, totalDuration, frameToItem,
                   gfError, failedAt, gfResult, run, filesAtStart, prev,
                   dtVars, srvVars, pvVars>>

\* (the failure caught inside the loop, which goes on to the next frame)
RenderThrowsContinue ==
    /\ InLoop
    /\ ~Exists(files, FramePath(frameNumber + 1))
    /\ renders' = Append(renders, [frame |-> frameNumber + 1,
                                   lines |-> TextLines(transcript, frameToItem, frameNumber)])
    /\ failedAt' = frameNumber + 1
    /\ frameNumber' = frameNumber + 1
    /\ UNCHANGED <<transcript, fps, files, gfPc, totalFrames, totalDuration, frameToItem,
                   events, writes, gfError, gfResult, run, filesAtStart, prev,
                   dtVars, srvVars, pvVars>>

\* line 159 throws (the canvas fails): generateFrames rejects
RenderThrows ==
    /\ InLoop
    /\ ~Exists(files, FramePath(frameNumber + 1))
    /\ renders' = Append(renders, [frame |-> frameNumber + 1,
                                   lines |-> TextLines(transcript, frameToItem, frameNumber)])
    /\ gfPc' = "failed"
    /\ gfError' = "render"
    /\ failedAt' = frameNumber + 1
    /\ UNCHANGED <<transcript, fps, files, totalFrames, totalDuration, frameToItem,
                   frameNumber, events, writes, gfResult, run, filesAtStart, prev,
                   dtVars, srvVars, pvVars>>

\* line 161 rejects (the disk is full, the directory is gone): nothing of the
\* file is there, or a part of it is
WriteThrows ==
    /\ InLoop
    /\ ~Exists(files, FramePath(frameNumber + 1))
    /\ LET lines == TextLines(transcript, frameToItem, frameNumber)
           path == FramePath(frameNumber + 1)
       IN  /\ renders' = Append(renders, [frame |-> frameNumber + 1, lines |-> lines])
           /\ writes' = Append(writes, path)
           /\ \/ files' = files
              \/ files' = WriteTo(files, path, Artifact("partial", RenderFrame(lines)))
    /\ gfPc' = "failed"
    /\ gfError' = "write"
    /\ failedAt' = frameNumber + 1
    /\ UNCHANGED <<transcript, fps, totalFrames, totalDuration, frameToItem,
                   frameNumber, events, gfResult, run, filesAtStart, prev,
                   dtVars, srvVars, pvVars>>

\* line 169
ReturnFrames ==
    /\ gfPc = "loop"
    /\ frameNumber >= totalFrames
    /\ gfPc' = "done"
    /\ gfResult' = [totalFrames |-> totalFrames, duration |-> totalDuration]
    /\ UNCHANGED <<transcript, fps, files, totalFrames, totalDuration, frameToItem,
                   frameNumber, events, renders, writes, gfError, failedAt, run,
                   filesAtStart, prev, dtVars, srvVars, pvVars>>

----------------------------------------------------------------------------
(* YouTubeExtractor.parseVTT (part_000 194-244).  The document and its      *)
(* lines are sequences of characters; the text of a cue is a string.        *)

Whitespace == {" ", "\t", "\r"}
Digit == {"0", "1", "2", "3", "4", "5", "6", "7", "8", "9"}

DigitValue(c) ==
    CASE c = "0" -> 0 [] c = "1" -> 1 [] c = "2" -> 2 [] c = "3" -> 3 [] c = "4" -> 4
      [] c = "5" -> 5 [] c = "6" -> 6 [] c = "7" -> 7 [] c = "8" -> 8 [] c = "9" -> 9

\* the least element of a set of numbers that is not empty
Least(S) == CHOOSE k \in S : \A m \in S : k <= m

\* vttContent.split('\n')
RECURSIVE Split(_)
Split(s) ==
    LET breaks == { k \in 1..Len(s) : s[k] = "\n" }
    IN  IF breaks = {} THEN <<s>>
        ELSE <<SubSeq(s, 1, Least(breaks) - 1)>> \o Split(SubSeq(s, Least(breaks) + 1, Len(s)))

\* String.prototype.trim
Trim(s) ==
    LET inked == { k \in 1..Len(s) : s[k] \notin Whitespace }
    IN  IF inked = {} THEN <<>>
        ELSE SubSeq(s, Least(inked), CHOOSE k \in inked : \A m \in inked : m <= k)

\* timeRegex, d for \d: (\d{2}):(\d{2}):(\d{2})\.(\d{3}) --> (the same)
TimePattern ==
    <<"d", "d", ":", "d", "d", ":", "d", "d", ".", "d", "d", "d", " ", "-",
    "-", ">", " ", "d", "d", ":", "d", "d", ":", "d", "d", ".", "d", "d",
    "d">>

MatchesAt(line, k) ==
    /\ k + Len(TimePattern) - 1 <= Len(line)
    /\ \A m \in 1..Len(TimePattern) :
          IF TimePattern[m] = "d" THEN line[k + m - 1] \in Digit
          ELSE line[k + m - 1] = TimePattern[m]

\* line.match(timeRegex): where the first match begins, 0 for no match
TimeMatch(line) ==
    LET found == { k \in 1..Len(line) : MatchesAt(line, k) }
    IN  IF found = {} THEN 0 ELSE Least(found)

\* parseInt of the digits of a group
ParseInt(line, k, width) ==
    LET RECURSIVE Value(_)
        Value(w) == IF w = 0 THEN 0 ELSE 10 * Value(w - 1) + DigitValue(line[k + w - 1])
    IN  Value(width)

\* (h * 3600 + m * 60 + s) * 1000 + ms of the stamp that begins at k
Stamp(line, k) ==
    (ParseInt(line, k, 2) * 3600 + ParseInt(line, k + 3, 2) * 60 + ParseInt(line, k + 6, 2)) * 1000
        + ParseInt(line, k + 9, 3)

\* replace(/<[^>]*>/g, '')
RECURSIVE StripTags(_)
StripTags(s) ==
    IF s = <<>> THEN <<>>
    ELSE LET closes == { k \in 2..Len(s) : s[k] = ">" }
         IN  IF s[1] = "<" /\ closes # {}
             THEN StripTags(SubSeq(s, Least(closes) + 1, Len(s)))
             ELSE <<s[1]>> \o StripTags(Tail(s))

\* the string of a sequence of characters
RECURSIVE Str(_)
Str(s) == IF s = <<>> THEN "" ELSE s[1] \o Str(Tail(s))

\* textLines.join(' ')
RECURSIVE Join(_)
Join(textLines) ==
    IF Len(textLines) = 1 THEN textLines[1]
    ELSE textLines[1] \o " " \o Join(Tail(textLines))

\* the while loop: j (0-based), the first index after i whose line is blank when
\* trimmed, or lines.length
BlockEnd(lines, i) ==
    LET blanks == { j \in (i + 1)..(Len(lines) - 1) : Trim(lines[j + 1]) = <<>> }
    IN  IF blanks = {} THEN Len(lines) ELSE Least(blanks)

\* textLines: the lines i+1 .. j-1 (0-based) without tags, trimmed, those left
\* empty dropped
CleanLines(lines, i, j) ==
    LET RECURSIVE From(_)
        From(k) ==
            IF k >= j THEN <<>>
            ELSE LET cleanLine == Str(Trim(StripTags(lines[k + 1])))
                 IN  IF cleanLine # "" THEN <<cleanLine>> \o From(k + 1) ELSE From(k + 1)
    IN  From(i + 1)

\* the call: lines and items
ParseVTTStart ==
    /\ pvPc = "idle"
    /\ pvLines' = Split(vttContent)
    /\ pvItems' = <<>>
    /\ pvI' = 0
    /\ pvPc' = "loop"
    /\ UNCHANGED <<vttContent, dtVars, gfVars, srvVars>>

InParse ==
    /\ pvPc = "loop"
    /\ pvI < Len(pvLines)

\* (a line that is no header and in no block ends the parse with an error)
SkipLineStrict ==
    /\ InParse
    /\ TimeMatch(Trim(pvLines[pvI + 1])) = 0
    /\ IF Trim(pvLines[pvI + 1]) = <<>>
       THEN pvI' = pvI + 1 /\ UNCHANGED <<pvPc, pvItems>>
       ELSE pvPc' = "failed" /\ pvItems' = <<>> /\ UNCHANGED pvI
    /\ UNCHANGED <<vttContent, pvLines, dtVars, gfVars, srvVars>>

\* an iteration at a line without a time range: on to the next
SkipLine ==
    /\ InParse
    /\ TimeMatch(Trim(pvLines[pvI + 1])) = 0
    /\ pvI' = pvI + 1
    /\ UNCHANGED <<vttContent, pvPc, pvLines, pvItems, dtVars, gfVars, srvVars>>

\* (a cue for every header, with or without text)
ReadCueAlways ==
    /\ InParse
    /\ LET line == Trim(pvLines[pvI + 1])
           at == TimeMatch(line)
           j == BlockEnd(pvLines, pvI)
           textLines == CleanLines(pvLines, pvI, j)
       IN  /\ at # 0
           /\ pvItems' = Append(pvItems,
                                Item(IF textLines = <<>> THEN "" ELSE Join(textLines),
                                     Stamp(line, at), Stamp(line, at + 17)))
           /\ pvI' = j + 1
    /\ UNCHANGED <<vttContent, pvPc, pvLines, dtVars, gfVars, srvVars>>

\* (a header whose end is not after its start gives no cue)
ReadCueValidated ==
    /\ InParse
    /\ LET line == Trim(pvLines[pvI + 1])
           at == TimeMatch(line)
           j == BlockEnd(pvLines, pvI)
           textLines == CleanLines(pvLines, pvI, j)
       IN  /\ at # 0
           /\ pvItems' = IF Len(textLines) > 0 /\ Stamp(line, at + 17) > Stamp(line, at)
                         THEN Append(pvItems,
                                     Item(Join(textLines), Stamp(line, at), Stamp(line, at + 17)))
                         ELSE pvItems
           /\ pvI' = j + 1
    /\ UNCHANGED <<vttContent, pvPc, pvLines, dtVars, gfVars, srvVars>>

\* an iteration at a line with a time range: the block up to the next blank
\* line, one item if it has text, and i = j
ReadCue ==
    /\ InParse
    /\ LET line == Trim(pvLines[pvI + 1])
           at == TimeMatch(line)
           j == BlockEnd(pvLines, pvI)
           textLines == CleanLines(pvLines, pvI, j)
       IN  /\ at # 0
           /\ pvItems' = IF Len(textLines) > 0
                         THEN Append(pvItems,
                                     Item(Join(textLines), Stamp(line, at), Stamp(line, at + 17)))
                         ELSE pvItems
           /\ pvI' = j + 1
    /\ UNCHANGED <<vttContent, pvPc, pvLines, dtVars, gfVars, srvVars>>

\* return items
ReturnItems ==
    /\ pvPc = "loop"
    /\ pvI >= Len(pvLines)
    /\ pvPc' = "returned"
    /\ UNCHANGED <<vttContent, pvLines, pvI, pvItems, dtVars, gfVars, srvVars>>

----------------------------------------------------------------------------
(* server.ts: the projects map, /api/init, /api/configure, /api/start and   *)
(* generateVideo.  The requests are for one video id.  A handler or a       *)
(* generateVideo call goes from one await to the next in one step; the      *)
(* iterations of the frame loop are steps of their own, as above.           *)

VideoId == "v"

\* generateVideo calls started by /api/start
MaxStarts == 2

\* project.config.fps
ServerRate == 1

\* what downloadTranscript resolves to: no entry, or one entry of two frames
ServerTimelines == {<<>>, <<Item(CueText("en", 1), 0, 2000)>>}

NoTranscript == "No transcript available"
\* the message of any other Error
Fault == "fault"
\* project.error undefined
Unset == "unset"

\* the ProjectState that /api/init creates; configured: selectedLanguages is set
NewProject ==
    [status |-> "idle", progress |-> 0, currentFrame |-> 0, totalFrames |-> 0,
     error |-> Unset, configured |-> FALSE]

\* a generateVideo call: where it waits (pc), the transcript it got, the loop
\* variable and total of its generateFrames call, the capabilities it has
\* called and the values it has assigned to project.status
StartedRun ==
    [pc |-> "start", fetched |-> FALSE, transcript |-> <<>>, frameNumber |-> 0,
     totalFrames |-> 0, calls |-> {}, statuses |-> <<>>]

Active(r) == runs[r].pc # "ended"

srvRest == <<transcript, fps, gfPc, totalFrames, totalDuration, frameToItem, frameNumber,
             events, renders, writes, gfError, failedAt, gfResult, run, filesAtStart,
             prev, dtVars, pvVars>>

\* /api/init
ApiInit ==
    /\ VideoId \notin DOMAIN projects
    /\ projects' = [id \in {VideoId} |-> NewProject]
    /\ UNCHANGED <<cfgPc, dirs, runs, files, srvRest>>

\* /api/configure up to its first await
ApiConfigure ==
    /\ VideoId \in DOMAIN projects
    /\ cfgPc = "idle"
    /\ projects' = [projects EXCEPT ![VideoId].configured = TRUE]
    /\ cfgPc' = "saving"
    /\ UNCHANGED <<dirs, runs, files, srvRest>>

\* /api/configure: mkdir(projectDir) and writeFile(config.json), or a failure
ConfigureSaves ==
    /\ cfgPc = "saving"
    /\ dirs' \in {dirs, dirs \cup {"project"}}
    /\ cfgPc' = "idle"
    /\ UNCHANGED <<projects, runs, files, srvRest>>

\* project.status = 'downloading'; project.progress = 10
Downloading(p) == [p EXCEPT !.status = "downloading", !.progress = 10]

\* the run enters the try block and calls downloadTranscript
EnterTry(rn) ==
    [rn EXCEPT !.pc = "transcript", !.calls = @ \cup {"downloadTranscript"},
               !.statuses = Append(@, "downloading")]

\* the catch block of generateVideo, and the catch of /api/start
Failed(p, message) == [p EXCEPT !.status = "error", !.error = message]

Ended(rn) == [rn EXCEPT !.pc = "ended", !.statuses = Append(@, "error")]

\* /api/start, and generateVideo up to its first await
ApiStart ==
    /\ VideoId \in DOMAIN projects
    /\ projects[VideoId].configured
    /\ projects[VideoId].status \notin {"generating", "downloading"}
    /\ Len(runs) < MaxStarts
    /\ IF "project" \notin dirs
       THEN /\ runs' = Append(runs, [StartedRun EXCEPT !.pc = "mkdirProject"])
            /\ UNCHANGED projects
       ELSE IF "frames" \notin dirs
       THEN /\ runs' = Append(runs, [StartedRun EXCEPT !.pc = "mkdirFrames"])
            /\ UNCHANGED projects
       ELSE /\ runs' = Append(runs, EnterTry(StartedRun))
            /\ projects' = [projects EXCEPT ![VideoId] = Downloading(@)]
    /\ UNCHANGED <<cfgPc, dirs, files, srvRest>>

\* an awaited mkdir of generateVideo is done
MkdirDone ==
    \E r \in 1..Len(runs) :
        /\ runs[r].pc \in {"mkdirProject", "mkdirFrames"}
        /\ IF runs[r].pc = "mkdirProject" /\ "frames" \notin dirs
           THEN /\ dirs' = dirs \cup {"project"}
                /\ runs' = [runs EXCEPT ![r].pc = "mkdirFrames"]
                /\ UNCHANGED projects
           ELSE /\ dirs' = dirs \cup {"project", "frames"}
                /\ runs' = [runs EXCEPT ![r] = EnterTry(@)]
                /\ projects' = [projects EXCEPT ![VideoId] = Downloading(@)]
        /\ UNCHANGED <<cfgPc, files, srvRest>>

\* (no validation of the transcript: on to the audio whatever came back)
TranscriptReturnsUnchecked ==
    \E r \in 1..Len(runs), t \in ServerTimelines :
        /\ runs[r].pc = "transcript"
        /\ runs' = [runs EXCEPT ![r] = [@ EXCEPT !.fetched = TRUE, !.transcript = t,
                                                 !.pc = "audio",
                                                 !.calls = @ \cup {"downloadAudio"}]]
        /\ projects' = [projects EXCEPT ![VideoId].progress = 30]
        /\ UNCHANGED <<cfgPc, dirs, files, srvRest>>

\* downloadTranscript resolves: lines 173-184
TranscriptReturns ==
    \E r \in 1..Len(runs), t \in ServerTimelines :
        /\ runs[r].pc = "transcript"
        /\ IF Len(t) = 0
           THEN /\ runs' = [runs EXCEPT ![r] =
                               Ended([@ EXCEPT !.fetched = TRUE, !.transcript = t])]
                /\ projects' = [projects EXCEPT ![VideoId] = Failed(@, NoTranscript)]
           ELSE /\ runs' = [runs EXCEPT ![r] = [@ EXCEPT !.fetched = TRUE, !.transcript = t,
                                                        !.pc = "audio",
                                                        !.calls = @ \cup {"downloadAudio"}]]
                /\ projects' = [projects EXCEPT ![VideoId].progress = 30]
        /\ UNCHANGED <<cfgPc, dirs, files, srvRest>>

\* downloadAudio resolves: lines 186-193, and generateFrames up to its loop
AudioReturns ==
    \E r \in 1..Len(runs) :
        /\ runs[r].pc = "audio"
        /\ LET called == [runs[r] EXCEPT !.calls = @ \cup {"generateFrames"},
                                         !.statuses = Append(@, "generating")]
               generating == [projects[VideoId] EXCEPT !.status = "generating",
                                                       !.progress = 40]
           IN  IF Len(runs[r].transcript) = 0
               THEN /\ runs' = [runs EXCEPT ![r] = Ended(called)]
                    /\ projects' = [projects EXCEPT ![VideoId] = Failed(generating, "TypeError")]
               ELSE /\ runs' = [runs EXCEPT ![r] =
                                   [called EXCEPT !.pc = "frames", !.frameNumber = 0,
                                      !.totalFrames = TotalFrames(runs[r].transcript, ServerRate)]]
                    /\ projects' = [projects EXCEPT ![VideoId] = generating]
        /\ UNCHANGED <<cfgPc, dirs, files, srvRest>>

\* the callback that generateVideo hands to generateFrames, lines 194-198;
\* frameNum / total * 50 is a whole number or has a fraction far from one
FrameCallback(p, frameNum, total) ==
    [p EXCEPT !.currentFrame = frameNum, !.totalFrames = total,
              !.progress = 40 + ((frameNum * 50) \div total)]

AtFrame(r) ==
    /\ runs[r].pc = "frames"
    /\ runs[r].frameNumber < runs[r].totalFrames

\* the frame is there: the callback alone
FrameSkip ==
    \E r \in 1..Len(runs) :
        /\ AtFrame(r)
        /\ Exists(files, FramePath(runs[r].frameNumber + 1))
        /\ projects' = [projects EXCEPT ![VideoId] =
                           FrameCallback(@, runs[r].frameNumber + 1, runs[r].totalFrames)]
        /\ runs' = [runs EXCEPT ![r].frameNumber = @ + 1]
        /\ UNCHANGED <<cfgPc, dirs, files, srvRest>>

\* the frame is not there: renderFrame, and writeFile is called and awaited
FrameWriteBegins ==
    \E r \in 1..Len(runs) :
        /\ AtFrame(r)
        /\ ~Exists(files, FramePath(runs[r].frameNumber + 1))
        /\ runs' = [runs EXCEPT ![r].pc = "writing"]
        /\ UNCHANGED <<projects, cfgPc, dirs, files, srvRest>>

Image(rn) ==
    RenderFrame(TextLines(rn.transcript, FrameToItem(rn.transcript, ServerRate), rn.frameNumber))

\* writeFile has opened the file, which is now there and cut to no content
FrameWriteOpens ==
    \E r \in 1..Len(runs) :
        /\ runs[r].pc = "writing"
        /\ files' = WriteTo(files, FramePath(runs[r].frameNumber + 1),
                            Artifact("partial", Image(runs[r])))
        /\ runs' = [runs EXCEPT ![r].pc = "flushing"]
        /\ UNCHANGED <<projects, cfgPc, dirs, srvRest>>

\* writeFile resolves; the callback
FrameWriteEnds ==
    \E r \in 1..Len(runs) :
        /\ runs[r].pc = "flushing"
        /\ files' = WriteTo(files, FramePath(runs[r].frameNumber + 1),
                            Artifact("complete", Image(runs[r])))
        /\ projects' = [projects EXCEPT ![VideoId] =
                           FrameCallback(@, runs[r].frameNumber + 1, runs[r].totalFrames)]
        /\ runs' = [runs EXCEPT ![r] = [@ EXCEPT !.pc = "frames", !.frameNumber = @ + 1]]
        /\ UNCHANGED <<cfgPc, dirs, srvRest>>

\* generateFrames resolves: lines 203-204
FramesReturn ==
    \E r \in 1..Len(runs) :
        /\ runs[r].pc = "frames"
        /\ runs[r].frameNumber = runs[r].totalFrames
        /\ projects' = [projects EXCEPT ![VideoId] =
                           [@ EXCEPT !.status = "completed", !.progress = 100]]
        /\ runs' = [runs EXCEPT ![r] = [@ EXCEPT !.pc = "ended",
                                                 !.statuses = Append(@, "completed")]]
        /\ UNCHANGED <<cfgPc, dirs, files, srvRest>>

\* what the run awaits rejects: mkdir, downloadTranscript, downloadAudio, writeFile
RunFails ==
    \E r \in 1..Len(runs) :
        /\ runs[r].pc \in {"mkdirProject", "mkdirFrames", "transcript", "audio",
                           "writing", "flushing"}
        /\ projects' = [projects EXCEPT ![VideoId] = Failed(@, Fault)]
        /\ runs' = [runs EXCEPT ![r] = Ended(@)]
        /\ UNCHANGED <<cfgPc, dirs, files, srvRest>>

----------------------------------------------------------------------------
(* The preview: which frame is shown at a time of the audio                 *)
(* (preview-server.ts 76-83, and the page's script, 249 and 316)            *)

\* const fps = 30, whatever rate the frames were generated at
PlaybackRate == 30

\* The times t (ms) below 8200 at which the double time * 30, time = t / 1000
\* seconds, lies below the whole number 3t / 100 that it stands for:
\* 4.1 * 30 is 122.99999999999999.
PlaybackLow == {4100}

\* Math.floor(time * fps) + 1 at the time t ms, t < 8200
FrameAtTime(t) ==
    IF t \in PlaybackLow THEN (t * PlaybackRate) \div 1000
    ELSE (t * PlaybackRate) \div 1000 + 1

----------------------------------------------------------------------------
(* Specifications *)

GfIdle ==
    /\ gfPc = "idle"
    /\ totalFrames = 0
    /\ totalDuration = 0
    /\ frameToItem = <<>>
    /\ frameNumber = 0
    /\ events = <<>>
    /\ renders = <<>>
    /\ writes = <<>>
    /\ gfError = ""
    /\ failedAt = 0
    /\ gfResult = [totalFrames |-> 0, duration |-> 0]
    /\ run = 0
    /\ filesAtStart = <<>>
    /\ prev = [pc |-> "idle", events |-> <<>>, files |-> <<>>, failedAt |-> 0]

DtIdle ==
    /\ selectedLanguages = <<>>
    /\ langIdx = 0
    /\ transcripts = <<>>
    /\ dtPc = "idle"
    /\ dtResult = <<>>
    /\ dtEarlier = <<>>
    /\ dtFailed = {}
    /\ tempSubs = <<>>

SrvIdle ==
    /\ projects = <<>>
    /\ cfgPc = "idle"
    /\ dirs = {}
    /\ runs = <<>>

PvIdle ==
    /\ vttContent = <<>>
    /\ pvPc = "idle"
    /\ pvLines = <<>>
    /\ pvI = 0
    /\ pvItems = <<>>

\* the track of the file that an earlier call left for a language
StaleTrack(lang) == <<Item(CueText(lang, 0), 0, 2)>>

\* temp_subs as a call finds it: empty, or with the file of one language that
\* an earlier call left
Leftovers ==
    {<<>>} \cup { [l \in {lang} |-> SubFile(StaleTrack(lang), plain)] :
                     lang \in { Languages[k] : k \in 1..Len(Languages) }, plain \in BOOLEAN }

\* downloadTranscript alone, over every outcome of the fetches
InitMerge ==
    /\ selectedLanguages \in { SubSeq(Languages, 1, n) : n \in 0..Len(Languages) }
    /\ langIdx = 0
    /\ transcripts = <<>>
    /\ dtPc = "fetch"
    /\ dtResult = <<>>
    /\ dtEarlier = <<>>
    /\ dtFailed = {}
    /\ tempSubs \in Leftovers
    /\ transcript = <<>>
    /\ fps = 1
    /\ files = <<>>
    /\ GfIdle
    /\ SrvIdle
    /\ PvIdle

NextMerge ==
    FetchLanguage \/ FetchFails \/ FetchReadsLeftover \/ MergeAndReturn \/ MergeAgain

SpecMerge == InitMerge /\ [][NextMerge]_vars

\* Timelines of one language, of at most n entries
Timelines(n, stamps) == UNION { TracksOf("en", k, stamps) : k \in 0..n }

\* The schedule of generateFrames alone, at the frame rates in use
SchedStamps == {0, 500, 1000, 2625}
SchedRates == {1, 2, 24, 30}

InitSched ==
    /\ DtIdle
    /\ transcript \in Timelines(MaxEntries, SchedStamps)
    /\ fps \in SchedRates
    /\ files = <<>>
    /\ GfIdle
    /\ SrvIdle
    /\ PvIdle

NextSched == GenerateFramesStart

SpecSched == InitSched /\ [][NextSched]_vars

\* parseVTT alone, over documents of at most MaxLines lines, each one of:
\* an empty line, a time range, a time range inside other characters and with
\* a carriage return, a text with a tag and blanks around it, a tag alone
MaxLines == 5

HeaderLine ==
    <<"0", "0", ":", "0", "0", ":", "0", "1", ".", "0", "0", "0", " ", "-",
    "-", ">", " ", "0", "0", ":", "0", "0", ":", "0", "2", ".", "5", "0",
    "0">>
LooseHeaderLine ==
    <<"x", "0", "1", ":", "0", "2", ":", "0", "3", ".", "0", "0", "4", " ",
    "-", "-", ">", " ", "0", "0", ":", "0", "0", ":", "0", "0", ".", "0",
    "0", "0", " ", "y", "\r">>
TextLine ==
    <<" ", "<", "c", ">", "a", "\r">>
TagLine ==
    <<"<", "b", ">">>

LineKinds == {<<>>, HeaderLine, LooseHeaderLine, TextLine, TagLine}

\* lines.join('\n')
RECURSIVE Unsplit(_)
Unsplit(lines) ==
    IF Len(lines) = 1 THEN lines[1]
    ELSE lines[1] \o <<"\n">> \o Unsplit(Tail(lines))

Documents == { Unsplit(lines) : lines \in UNION { [1..n -> LineKinds] : n \in 1..MaxLines } }

InitParse ==
    /\ DtIdle
    /\ transcript = <<>>
    /\ fps = 1
    /\ files = <<>>
    /\ GfIdle
    /\ SrvIdle
    /\ vttContent \in Documents
    /\ pvPc = "idle"
    /\ pvLines = <<>>
    /\ pvI = 0
    /\ pvItems = <<>>

NextParse == ParseVTTStart \/ SkipLine \/ ReadCue \/ ReturnItems

SpecParse == InitParse /\ [][NextParse]_vars

\* The server from its start: nothing initialised, no directory of the project
InitServer ==
    /\ DtIdle
    /\ transcript = <<>>
    /\ fps = ServerRate
    /\ files = <<>>
    /\ GfIdle
    /\ SrvIdle
    /\ PvIdle

NextServer ==
    \/ ApiInit
    \/ ApiConfigure
    \/ ConfigureSaves
    \/ ApiStart
    \/ MkdirDone
    \/ TranscriptReturns
    \/ AudioReturns
    \/ FrameSkip
    \/ FrameWriteBegins
    \/ FrameWriteOpens
    \/ FrameWriteEnds
    \/ FramesReturn
    \/ RunFails

SpecServer == InitServer /\ [][NextServer]_vars

\* generateFrames run after run against one frames directory
DriverStamps == {0, 500, 1000}
DriverRates == {1, 2}
\* frames that may be there before the first run
OldFrames == 1..3

\* the second language of the Timelines of two languages
SecondTrack == <<Item(CueText("fr", 1), 0, 500)>>

\* what downloadTranscript makes of a base track alone, and of it and SecondTrack
DriverTimelines ==
    { MergeTranscripts(<<[lang |-> "en", items |-> base]>> \o second) :
        base \in Timelines(MaxEntries, DriverStamps),
        second \in {<<>>, <<[lang |-> "fr", items |-> SecondTrack]>>} }

Init ==
    /\ DtIdle
    /\ transcript \in DriverTimelines
    /\ fps \in DriverRates
    /\ \E old \in SUBSET OldFrames :
          files = [q \in { FramePath(n) : n \in old } |-> Artifact("complete", <<"old">>)]
    /\ GfIdle
    /\ SrvIdle
    /\ PvIdle

Next ==
    \/ GenerateFramesStart
    \/ SkipFrame
    \/ RenderAndWrite
    \/ RenderThrows
    \/ WriteThrows
    \/ ReturnFrames

Spec == Init /\ [][Next]_vars

----------------------------------------------------------------------------
(* Properties of downloadTranscript, under SpecMerge                        *)

Returned == dtPc \in {"returned", "repeated"} /\ Len(transcripts) > 0

BaseTrack == transcripts[1].items

\* twice the midpoint of a merged entry
Mid2(entry) == 2 * entry.offset + entry.duration

\* the cues of a track whose closed interval holds the midpoint of entry
Containing(items, entry) ==
    { k \in 1..Len(items) :
        2 * items[k].offset <= Mid2(entry)
        /\ Mid2(entry) <= 2 * (items[k].offset + items[k].duration) }

\* C1: when at least one track was fetched, the Timeline that downloadTranscript
\* returns is as long as the base track (the first fetched track) and its entry j
\* has the offset and the duration of base cue j.
C1_BaseTimingKept ==
    Returned =>
        /\ Len(dtResult) = Len(BaseTrack)
        /\ \A j \in 1..Len(BaseTrack) :
              /\ dtResult[j].offset = BaseTrack[j].offset
              /\ dtResult[j].duration = BaseTrack[j].duration

\* a base track out of time order with a cue of negative duration, merged with another track
C1_Witness ==
    /\ Returned
    /\ Len(transcripts) >= 2
    /\ Len(dtResult) = 2
    /\ dtResult[1].offset > dtResult[2].offset
    /\ dtResult[2].duration < 0

\* C2: every entry of the returned Timeline has one text per merged track; the
\* first is the base cue's text and the i-th is a text of the i-th merged track
\* or the empty string.
C2_OneTextPerTrack ==
    Returned =>
        \A j \in 1..Len(dtResult) :
            /\ Len(dtResult[j].text) = Len(transcripts)
            /\ j <= Len(BaseTrack) /\ dtResult[j].text[1] = BaseTrack[j].text[1]
            /\ \A i \in 2..Len(transcripts) :
                  \/ dtResult[j].text[i] = ""
                  \/ \E k \in 1..Len(transcripts[i].items) :
                        dtResult[j].text[i] = transcripts[i].items[k].text[1]

\* three tracks, the second without a match and the third with one
C2_Witness ==
    /\ Returned
    /\ Len(transcripts) = 3
    /\ Len(dtResult) >= 1
    /\ dtResult[1].text[2] = ""
    /\ dtResult[1].text[3] # ""

\* C3: the text slot of a secondary track is the text of the first cue, in track
\* order, with start <= m <= end for the base cue's midpoint m, and the empty
\* string when the track has no such cue.
C3_FirstContainingCue ==
    Returned =>
        \A j \in 1..Len(dtResult) : \A i \in 2..Len(transcripts) :
            LET items == transcripts[i].items
                hits == Containing(items, dtResult[j])
            IN  IF hits = {}
                THEN dtResult[j].text[i] = ""
                ELSE \E k \in hits :
                        /\ \A h \in hits : k <= h
                        /\ dtResult[j].text[i] = items[k].text[1]

\* two cues of a track hold the midpoint, the first of them only at its end
C3_Witness ==
    /\ Returned
    /\ Len(transcripts) >= 2
    /\ Len(dtResult) >= 1
    /\ LET items == transcripts[2].items
           hits == Containing(items, dtResult[1])
       IN  /\ hits = {1, 2}
           /\ 2 * (items[1].offset + items[1].duration) = Mid2(dtResult[1])
           /\ dtResult[1].text[2] = items[1].text[1]

----------------------------------------------------------------------------
(* Properties of the schedule of generateFrames, under SpecSched            *)

Scheduled == gfPc \in {"loop", "done"} \/ (gfPc = "failed" /\ gfError # "TypeError")

\* frame f lies in [startFrame, endFrame) of entry i
Claims(i, f) ==
    /\ FrameQuotient(transcript[i].offset, fps).floor <= f
    /\ f < FrameQuotient(transcript[i].offset + transcript[i].duration, fps).ceil

Claimants(f) == { i \in 1..Len(transcript) : Claims(i, f) }

\* every frame some entry claims, and every frame that is generated
FramesOfInterest ==
    (0..(totalFrames - 1)) \cup DOMAIN frameToItem
        \cup UNION { FrameQuotient(transcript[i].offset, fps).floor
                       ..(FrameQuotient(transcript[i].offset + transcript[i].duration,
                                        fps).ceil - 1) : i \in 1..Len(transcript) }

\* C4: a frame maps to an entry only if it lies in that entry's range
\* [floor(offset / frameDuration), ceil((offset + duration) / frameDuration)), and
\* it is blank (no entry, an empty text list) exactly when no entry's range holds it.
C4_FrameCoverage ==
    Scheduled =>
        \A f \in FramesOfInterest :
            /\ f \in DOMAIN frameToItem =>
                  /\ frameToItem[f] \in 1..Len(transcript)
                  /\ Claims(frameToItem[f], f)
                  /\ TextLines(transcript, frameToItem, f) = transcript[frameToItem[f]].text
            /\ f \notin DOMAIN frameToItem <=> Claimants(f) = {}
            /\ f \notin DOMAIN frameToItem => TextLines(transcript, frameToItem, f) = <<>>

\* among the generated frames one is blank and a later one shows an entry
C4_Witness ==
    /\ Scheduled
    /\ \E f, g \in 0..(totalFrames - 1) :
          f < g /\ f \notin DOMAIN frameToItem /\ g \in DOMAIN frameToItem

\* C5: when two entries with offsets o1 < o2 claim the same frame, the frame does
\* not go to the one with o1, wherever the two stand in the Timeline: it goes to
\* the one with o2 (to an entry with offset o2 at least, should a third entry claim it).
C5_LaterOffsetWins ==
    Scheduled =>
        \A f \in FramesOfInterest : \A i1, i2 \in Claimants(f) :
            transcript[i1].offset < transcript[i2].offset =>
                /\ f \in DOMAIN frameToItem
                /\ frameToItem[f] # i1
                /\ transcript[frameToItem[f]].offset >= transcript[i2].offset
                /\ Claimants(f) = {i1, i2} => frameToItem[f] = i2

\* the entry with the later offset comes first in the Timeline and holds the frame
C5_Witness ==
    /\ Scheduled
    /\ \E f \in DOMAIN frameToItem :
          /\ Claimants(f) = {1, 2}
          /\ transcript[2].offset < transcript[1].offset
          /\ frameToItem[f] = 1

\* the ceiling of a / b, for a >= 0 and b > 0
CeilDiv(a, b) == (a + b - 1) \div b

\* C6: for a non-empty Timeline, generateFrames computes
\* totalFrames = ceil((offset + duration of the final entry) * fps / 1000), and the
\* duration it computes is offset + duration of that entry.
C6_TotalFramesExact ==
    Scheduled =>
        /\ totalDuration = transcript[Len(transcript)].offset
                              + transcript[Len(transcript)].duration
        /\ totalFrames = CeilDiv(totalDuration * fps, 1000)

----------------------------------------------------------------------------
(* Properties of the frame loop of generateFrames, under Spec               *)

RECURSIVE Pow10(_)
Pow10(k) == IF k = 0 THEN 1 ELSE 10 * Pow10(k - 1)

\* the path whose file name carries n as eight decimal digits, zeros in front
CanonicalPath(n) == [d \in 1..8 |-> (n \div Pow10(8 - d)) % 10]

\* a file is at the path
Present(fs, path) == path \in DOMAIN fs

\* the frames a run has called the renderer for, and those it has written
Rendered == { renders[r].frame : r \in 1..Len(renders) }
Written == { n \in 1..totalFrames : \E w \in 1..Len(writes) : writes[w] = CanonicalPath(n) }

\* C7: in a run that completes, the progress events are those of the frames
\* 1, 2, ..., totalFrames in this order, one each, rendered or skipped, each with
\* totalFrames and the path of the artifact of its index.
C7_ProgressEvents ==
    gfPc = "done" =>
        /\ Len(events) = totalFrames
        /\ \A n \in 1..Len(events) :
              /\ events[n] = <<n, totalFrames, CanonicalPath(n)>>
              /\ Present(files, events[n][3])

\* a completed run of at least two frames that rendered some and skipped others
C7_Witness ==
    /\ gfPc = "done"
    /\ totalFrames >= 2
    /\ Len(renders) >= 1
    /\ Len(renders) < totalFrames
    /\ Len(events) = totalFrames

\* C8: when the artifact of the frame the driver has reached exists, the step
\* calls no renderer and writes nothing, and emits the frame's progress event.
C8_SkipExisting ==
    [][ (InLoop /\ Present(files, CanonicalPath(frameNumber + 1))) =>
            /\ renders' = renders
            /\ writes' = writes
            /\ files' = files
            /\ events' = Append(events,
                                <<frameNumber + 1, totalFrames, CanonicalPath(frameNumber + 1)>>)
      ]_vars

\* a run that found its first frames, has emitted their events and rendered nothing
C8_Witness ==
    /\ gfPc = "loop"
    /\ Len(events) = 2
    /\ renders = <<>>
    /\ writes = <<>>
    /\ files = filesAtStart

\* C9: a second completed run with the same Timeline, fps and directory leaves
\* the artifacts as the first completed run left them and emits the same progress
\* events; a run that finds every artifact 1..totalFrames calls no renderer.
C9_ResumeIdempotent ==
    /\ (gfPc = "done" /\ run >= 2 /\ prev.pc = "done") =>
          /\ files = prev.files
          /\ events = prev.events
          /\ renders = <<>>
    /\ (gfPc = "done"
        /\ \A n \in 1..totalFrames : Present(filesAtStart, CanonicalPath(n))) =>
          /\ renders = <<>>
          /\ files = filesAtStart

\* two completed runs, the first of which rendered a frame
C9_Witness ==
    /\ gfPc = "done"
    /\ run = 2
    /\ prev.pc = "done"
    /\ totalFrames >= 2
    /\ \E n \in 1..totalFrames : files[CanonicalPath(n)].image # <<"old">>

\* C10: when the renderer or the write fails at frame k, the run rejects there:
\* the renderer was called once for k and for no later frame, nothing was written
\* past k, progress events were emitted for the frames before k only, the
\* artifacts of the frames before k are there (those the run found, unchanged),
\* and the next run renders none of the frames before k.
C10_FailureAborts ==
    /\ failedAt > 0 =>
          /\ gfPc = "failed"
          /\ frameNumber = failedAt - 1
          /\ Len(events) = failedAt - 1
          /\ \A n \in Rendered \cup Written : n <= failedAt
          /\ Cardinality({ r \in 1..Len(renders) : renders[r].frame = failedAt }) = 1
          /\ Cardinality({ w \in 1..Len(writes) : writes[w] = CanonicalPath(failedAt) }) <= 1
          /\ \A n \in 1..(failedAt - 1) :
                /\ Present(files, CanonicalPath(n))
                /\ Present(filesAtStart, CanonicalPath(n)) =>
                      files[CanonicalPath(n)] = filesAtStart[CanonicalPath(n)]
                /\ ~Present(filesAtStart, CanonicalPath(n)) =>
                      n \in Written /\ files[CanonicalPath(n)].state = "complete"
    /\ (run >= 2 /\ prev.pc = "failed" /\ prev.failedAt > 0) =>
          \A n \in 1..(prev.failedAt - 1) :
              /\ n \notin Rendered
              /\ n \notin Written
              /\ files[CanonicalPath(n)] = prev.files[CanonicalPath(n)]

\* the renderer failed at the second frame; the next run skipped the first and rendered the second
C10_Witness ==
    /\ run = 2
    /\ prev.pc = "failed"
    /\ prev.failedAt = 2
    /\ gfPc = "done"
    /\ Rendered = {2}
    /\ Len(events) = 2


\* C11: at every point of every run, a frame path at which the existence check
\* succeeds holds a fully committed artifact, never a half-written one.
C11_NoPartialArtifact ==
    \A path \in DOMAIN files : files[path].state = "complete"

\* the number of languages of the Timeline, that of the texts of its entries
Participating == Len(transcript[1].text)

\* C13 as claimed: every call of the renderer gets one line per participating
\* language, the calls for frames without a claimant included.
C13_OneLinePerLanguage ==
    \A r \in 1..Len(renders) : Len(renders[r].lines) = Participating

\* C13 as amended: a call of the renderer for a frame that an entry claims gets
\* one line per participating language, the entry's texts; a call for a frame
\* without a claimant gets the empty list.
C13_LinesOfClaimedFrames ==
    \A r \in 1..Len(renders) :
        IF Claimants(renders[r].frame - 1) # {}
        THEN /\ Len(renders[r].lines) = Participating
             /\ \E i \in Claimants(renders[r].frame - 1) : renders[r].lines = transcript[i].text
        ELSE renders[r].lines = <<>>

\* a run of two languages that rendered a blank frame and then a frame whose
\* second language has no text
C13_Witness ==
    /\ gfPc = "done"
    /\ Len(renders) = 2
    /\ Participating = 2
    /\ renders[1].lines = <<>>
    /\ Len(renders[2].lines) = 2
    /\ renders[2].lines[2] = ""

\* C14: a run leaves every artifact that was there when it began as it was, while
\* it runs and after it has completed or failed.
C14_OldArtifactsKept ==
    gfPc # "idle" =>
        \A path \in DOMAIN filesAtStart :
            Present(files, path) /\ files[path] = filesAtStart[path]

\* a run that found the first frame, skipped it, wrote the second and completed
C14_Witness ==
    /\ gfPc = "done"
    /\ totalFrames = 2
    /\ Present(filesAtStart, CanonicalPath(1))
    /\ ~Present(filesAtStart, CanonicalPath(2))
    /\ writes = <<CanonicalPath(2)>>

\* C17: generateFrames called with an empty Timeline rejects at once: no frame is
\* scheduled, rendered or written and no progress event is emitted.
C17_EmptyTimelineFaults ==
    (gfPc # "idle" /\ Len(transcript) = 0) =>
        /\ gfPc = "failed"
        /\ gfError = "TypeError"
        /\ DOMAIN frameToItem = {}
        /\ events = <<>>
        /\ renders = <<>>
        /\ writes = <<>>
        /\ files = filesAtStart

\* the call with an empty Timeline against a directory that holds frames
C17_Witness ==
    /\ gfPc = "failed"
    /\ gfError = "TypeError"
    /\ Len(transcript) = 0
    /\ DOMAIN files # {}

\* the index of the frame a write went to
WrittenIndex(w) == CHOOSE n \in 1..(totalFrames + 1) : writes[w] = CanonicalPath(n)

\* C18: frames are processed one at a time in increasing order: the renderer is
\* called and the file written for frame k + 1 only when the progress events of
\* the frames up to k have been emitted; a run that completes leaves an artifact
\* for every index 1..totalFrames.
C18_SequentialAndComplete ==
    /\ \A r \in 1..Len(renders) :
          /\ renders[r].frame <= Len(events) + 1
          /\ \A q \in 1..(r - 1) : renders[q].frame < renders[r].frame
    /\ \A w \in 1..Len(writes) :
          /\ \E n \in 1..totalFrames : writes[w] = CanonicalPath(n)
          /\ WrittenIndex(w) <= Len(events) + 1
          /\ \A q \in 1..(w - 1) : WrittenIndex(q) < WrittenIndex(w)
    /\ \A n \in 1..Len(events) : events[n][1] = n
    /\ gfPc = "done" =>
          \A n \in 1..totalFrames : Present(files, CanonicalPath(n))

\* a completed run that rendered and wrote two frames
C18_Witness ==
    /\ gfPc = "done"
    /\ totalFrames = 2
    /\ Len(renders) = 2
    /\ Len(writes) = 2


\* C15: when no track was fetched, or every fetched track is empty,
\* downloadTranscript returns (it does not throw) and what it returns is the
\* empty Timeline.
C15_NothingFetchedIsEmpty ==
    (/\ langIdx = Len(selectedLanguages)
     /\ \A i \in 1..Len(transcripts) : transcripts[i].items = <<>>) =>
        /\ ENABLED MergeAndReturn \/ dtPc \in {"returned", "repeated"}
        /\ dtPc \in {"returned", "repeated"} => dtResult = <<>>

\* it returned after two languages failed and one gave a track without cues
C15_Witness ==
    /\ dtPc = "returned"
    /\ Len(selectedLanguages) = 3
    /\ Len(transcripts) = 1
    /\ transcripts[1].items = <<>>
    /\ dtResult = <<>>


\* the runs that await a writeFile to the path
Writers(path) ==
    { r \in 1..Len(runs) : /\ runs[r].pc \in {"writing", "flushing"}
                           /\ FramePath(runs[r].frameNumber + 1) = path }

\* C12: whatever the order of the /api/start requests for a project, at most one
\* generateVideo run is active at a time, and at most one run is writing to a
\* frame path at a time.
C12_OneActiveRun ==
    /\ Cardinality({ r \in 1..Len(runs) : Active(r) }) <= 1
    /\ \A r \in 1..Len(runs) :
          Cardinality(Writers(FramePath(runs[r].frameNumber + 1))) <= 1

\* C16: a generateVideo run whose downloadTranscript resolved to an empty
\* Timeline has ended, called neither downloadAudio nor generateFrames, and
\* assigned 'downloading' and then 'error' to the status and nothing else; the
\* step in which it learns of the empty Timeline leaves the project with
\* status 'error' and the 'No transcript available' message.
C16_EmptyTranscriptStops ==
    /\ [](\A r \in 1..Len(runs) :
            (runs[r].fetched /\ Len(runs[r].transcript) = 0) =>
                /\ runs[r].pc = "ended"
                /\ runs[r].calls = {"downloadTranscript"}
                /\ runs[r].statuses = <<"downloading", "error">>)
    /\ [][\A r \in 1..Len(runs) :
            (~runs[r].fetched /\ runs'[r].fetched /\ Len(runs'[r].transcript) = 0) =>
                /\ projects'[VideoId].status = "error"
                /\ projects'[VideoId].error = NoTranscript]_vars

\* a run came back with an empty Timeline and left the project in error
C16_Witness ==
    /\ Len(runs) = 1
    /\ runs[1].fetched
    /\ Len(runs[1].transcript) = 0
    /\ runs[1].pc = "ended"
    /\ projects[VideoId].status = "error"
    /\ projects[VideoId].error = NoTranscript


\* the lines of the document, numbered from 1
IsHeader(k) == TimeMatch(Trim(pvLines[k])) # 0

IsBlank(k) == Trim(pvLines[k]) = <<>>

\* the lines after the header k, up to the next blank line
BlockLines(k) == { m \in (k + 1)..Len(pvLines) : \A b \in (k + 1)..m : ~IsBlank(b) }

\* those of them that have text once the tags are stripped
Surviving(k) == { m \in BlockLines(k) : Trim(StripTags(pvLines[m])) # <<>> }

\* C19: parseVTT comes to its return for every document and never ends in an
\* error; an iteration at a line that is no header leaves the items alone and
\* goes on to the next line; a document in which no header has text after it
\* gives the empty Track.
C19_UnparsableLinesSkipped ==
    [][/\ pvPc' \in {"loop", "returned"}
       /\ pvPc = "loop" => (pvI' > pvI \/ pvPc' = "returned")
       /\ pvI' <= Len(pvLines') + 1
       /\ (InParse /\ ~IsHeader(pvI + 1)) =>
             (pvItems' = pvItems /\ pvI' = pvI + 1 /\ pvPc' = "loop")
       /\ (pvPc' = "returned" /\ \A k \in 1..Len(pvLines) : IsHeader(k) => Surviving(k) = {})
             => pvItems' = <<>>]_vars

\* a document of text, tag and empty lines and of a header without text after
\* it, parsed to the empty Track
C19_Witness ==
    /\ pvPc = "returned"
    /\ pvLines = <<TextLine, TagLine, <<>>, HeaderLine, TagLine>>
    /\ pvItems = <<>>

\* the numbers of a set in increasing order
RECURSIVE Ascending(_)
Ascending(S) == IF S = {} THEN <<>> ELSE <<Least(S)>> \o Ascending(S \ {Least(S)})

\* the headers that open a block: every header before them is cut off from
\* them by a blank line
OpensBlock(k) ==
    /\ IsHeader(k)
    /\ \A h \in 1..(k - 1) : IsHeader(h) => \E b \in (h + 1)..(k - 1) : IsBlank(b)

\* the collected text of the block of header k
CollectedText(k) ==
    LET kept == Ascending(Surviving(k))
        RECURSIVE Spaced(_)
        Spaced(n) ==
            IF n = 1 THEN Str(Trim(StripTags(pvLines[kept[1]])))
            ELSE Spaced(n - 1) \o " " \o Str(Trim(StripTags(pvLines[kept[n]])))
    IN  Spaced(Len(kept))

\* the blocks that have text, in document order
TextBlocks == Ascending({ k \in 1..Len(pvLines) : OpensBlock(k) /\ Surviving(k) # {} })

\* C20: the Track that parseVTT returns has one cue for each header block with
\* text, in document order, the text being the block's lines after the header,
\* tags stripped, trimmed and joined by single spaces; blocks without text give
\* no cue; the Track is never longer than the number of header lines.
C20_OneCuePerTextBlock ==
    /\ pvPc # "idle" =>
          Len(pvItems) <= Cardinality({ k \in 1..Len(pvLines) : IsHeader(k) })
    /\ pvPc = "returned" =>
          LET blocks == TextBlocks
          IN  /\ Len(pvItems) = Len(blocks)
              /\ \A n \in 1..Len(blocks) :
                    /\ pvItems[n].text = <<CollectedText(blocks[n])>>
                    /\ pvItems[n].offset =
                          Stamp(Trim(pvLines[blocks[n]]), TimeMatch(Trim(pvLines[blocks[n]])))

\* a block without text, then a block of two lines of text
C20_Witness ==
    /\ pvPc = "returned"
    /\ pvLines = <<LooseHeaderLine, <<>>, HeaderLine, TextLine, TextLine>>
    /\ Len(pvItems) = 1
    /\ pvItems[1].text = <<"a a">>
    /\ pvItems[1].offset = 1000


\* the fields of the time range of header k: hours, minutes, seconds and
\* milliseconds of the start (from = 0) or of the end (from = 17)
Hours(k, from) == ParseInt(Trim(pvLines[k]), TimeMatch(Trim(pvLines[k])) + from, 2)
Minutes(k, from) == ParseInt(Trim(pvLines[k]), TimeMatch(Trim(pvLines[k])) + from + 3, 2)
Seconds(k, from) == ParseInt(Trim(pvLines[k]), TimeMatch(Trim(pvLines[k])) + from + 6, 2)
Millis(k, from) == ParseInt(Trim(pvLines[k]), TimeMatch(Trim(pvLines[k])) + from + 9, 3)

Milliseconds(k, from) ==
    (Hours(k, from) * 3600 + Minutes(k, from) * 60 + Seconds(k, from)) * 1000 + Millis(k, from)

\* C21: the cue of every block with text has offset (h*3600 + m*60 + s)*1000 + ms
\* of the start field of its header and duration end - start, the end computed
\* in the same way; a header whose end is not after its start still gives its
\* cue, with that duration, zero or negative.
C21_TimingNotValidated ==
    pvPc = "returned" =>
        LET blocks == TextBlocks
        IN  /\ Len(pvItems) = Len(blocks)
            /\ \A n \in 1..Len(blocks) :
                  /\ pvItems[n].offset = Milliseconds(blocks[n], 0)
                  /\ pvItems[n].duration =
                        Milliseconds(blocks[n], 17) - Milliseconds(blocks[n], 0)

\* a header from 01:02:03.004 to 00:00:00.000 and a header from 00:00:01.000 to
\* 00:00:02.500, each with a text
C21_Witness ==
    /\ pvPc = "returned"
    /\ pvLines = <<LooseHeaderLine, TextLine, <<>>, HeaderLine, TextLine>>
    /\ Len(pvItems) = 2
    /\ pvItems[1].offset = 3723004
    /\ pvItems[1].duration = -3723004
    /\ pvItems[2].offset = 1000
    /\ pvItems[2].duration = 1500


\* C22: an entry whose duration is zero or negative holds no frame of the
\* schedule (so it takes no frame from another entry), at every offset and rate.
C22_ZeroWidthHoldsNoFrame ==
    Scheduled =>
        \A i \in 1..Len(transcript) :
            transcript[i].duration <= 0 =>
                \A f \in DOMAIN frameToItem : frameToItem[f] # i


C24_TotalFramesCoversEntries ==
    Scheduled =>
        /\ \A i \in 1..Len(transcript) :
              FrameQuotient(transcript[i].offset + transcript[i].duration, fps).ceil
                  <= totalFrames
        /\ \A f \in DOMAIN frameToItem : f < totalFrames


\* the selected languages whose fetch did not fail, in selection order
RECURSIVE FetchedFrom(_)
FetchedFrom(k) ==
    IF k > Len(selectedLanguages) THEN <<>>
    ELSE IF selectedLanguages[k] \in dtFailed THEN FetchedFrom(k + 1)
    ELSE <<selectedLanguages[k]>> \o FetchedFrom(k + 1)

\* C25: a language whose fetch fails does not fail downloadTranscript: the call
\* returns, the Timeline has one slot for each language that was fetched and
\* none for one that failed, the slots are in selection order, and the entries
\* and their timing are those of the first language that was fetched, which
\* need not be the first one selected.
C25_FailedLanguageSkipped ==
    /\ dtPc \in {"idle", "fetch", "returned", "repeated"}
    /\ (dtPc = "fetch" /\ langIdx = Len(selectedLanguages)) => ENABLED MergeAndReturn
    /\ dtPc \in {"returned", "repeated"} =>
          LET fetched == FetchedFrom(1)
          IN  /\ Len(transcripts) = Len(fetched)
              /\ \A i \in 1..Len(fetched) : transcripts[i].lang = fetched[i]
              /\ Len(fetched) > 0 =>
                    /\ Len(dtResult) = Len(transcripts[1].items)
                    /\ \A j \in 1..Len(dtResult) :
                          /\ Len(dtResult[j].text) = Len(fetched)
                          /\ dtResult[j].text[1] = CueText(fetched[1], j)
                          /\ dtResult[j].offset = transcripts[1].items[j].offset
                          /\ dtResult[j].duration = transcripts[1].items[j].duration
                          /\ \A i \in 2..Len(fetched) :
                                \/ dtResult[j].text[i] = ""
                                \/ \E k \in 1..Len(transcripts[i].items) :
                                      dtResult[j].text[i] = CueText(fetched[i], k)

\* C26: the result of downloadTranscript is empty only if every fetched track
\* is empty: with a cue in at least one fetched track the returned Timeline has
\* an entry (so that generateVideo, which reports 'No transcript available'
\* for a Timeline of length 0, does not report it).
C26_EmptyOnlyIfAllTracksEmpty ==
    (/\ dtPc \in {"returned", "repeated"}
     /\ \E i \in 1..Len(transcripts) : Len(transcripts[i].items) > 0)
        => Len(dtResult) > 0

\* C27: whenever the status of the project is 'completed', its error field is
\* unset, whatever /api/start requests came before, a restart after a failed
\* run included.
C27_CompletedHasNoError ==
    (VideoId \in DOMAIN projects /\ projects[VideoId].status = "completed")
        => projects[VideoId].error = Unset

\* the run is inside the try block of generateVideo
InTry(r) == runs[r].pc \in {"transcript", "audio", "frames", "writing", "flushing"}

\* C28: within one generateVideo run, from its first assignment to its end,
\* every step leaves project.progress at least as high as it was and within
\* 0..100 and currentFrame at most totalFrames, and the step that sets the
\* status to 'completed' sets progress to 100 and comes after the progress
\* event of the last frame (currentFrame = totalFrames = the run's total).
C28_ProgressWithinRun ==
    [][\A r \in 1..Len(runs) :
          InTry(r) =>
             /\ projects'[VideoId].progress >= projects[VideoId].progress
             /\ projects'[VideoId].progress \in 0..100
             /\ projects'[VideoId].currentFrame <= projects'[VideoId].totalFrames
             /\ (runs'[r].pc = "ended" /\ projects'[VideoId].status = "completed"
                   /\ runs'[r].statuses[Len(runs'[r].statuses)] = "completed")
                   => /\ projects'[VideoId].progress = 100
                      /\ runs[r].frameNumber = runs[r].totalFrames
                      /\ projects[VideoId].currentFrame = runs[r].totalFrames
                      /\ projects[VideoId].totalFrames = runs[r].totalFrames]_vars

\* C29: when two entries with the same offset claim the same frame, the one
\* that stands later in the Timeline does not get it: the frame stays with an
\* entry that came before, and with the earlier of the two when no other entry
\* claims the frame.
C29_EqualOffsetsEarlierKeeps ==
    Scheduled =>
        \A f \in FramesOfInterest : \A i1, i2 \in Claimants(f) :
            (i1 < i2 /\ transcript[i1].offset = transcript[i2].offset) =>
                /\ f \in DOMAIN frameToItem
                /\ frameToItem[f] # i2
                /\ Claimants(f) = {i1, i2} => frameToItem[f] = i1

\* two entries of one offset and different durations, the first holds the frame
C29_Witness ==
    /\ Scheduled
    /\ Len(transcript) >= 2
    /\ transcript[1].offset = transcript[2].offset
    /\ transcript[1].duration < transcript[2].duration
    /\ \E f \in DOMAIN frameToItem : Claimants(f) = {1, 2} /\ frameToItem[f] = 1

\* times of the audio clock, in ms, at which the preview is looked at
PlaybackTimes == {0, 33, 100, 499, 500, 999, 1000, 1500, 2625, 3000, 4100, 5249}

\* C30: the preview shows, at a time t within an entry (offset <= t <
\* offset + duration), an artifact made for that entry: when the number n that
\* the preview computes for t is at most totalFrames, frame n - 1 of the
\* schedule is held by the entry, or by an entry of later offset that claims
\* the frame too.
C30_PlaybackAgrees ==
    Scheduled =>
        \A i \in 1..Len(transcript) : \A t \in PlaybackTimes :
            (/\ transcript[i].offset <= t
             /\ t < transcript[i].offset + transcript[i].duration
             /\ FrameAtTime(t) <= totalFrames)
                => LET f == FrameAtTime(t) - 1
                   IN  /\ f \in DOMAIN frameToItem
                       /\ \/ frameToItem[f] = i
                          \/ /\ transcript[frameToItem[f]].offset > transcript[i].offset
                             /\ Claims(frameToItem[f], f)
                             /\ Claims(i, f)

=========================================================================
